---------------------------- MODULE Spec2Model ----------------------------
(***************************************************************************)
(* GameMapPixiComponent (game-map-pixi.component.ts): the asynchronous     *)
(* mount sequence ngOnInit -> initPixi -> loadTextures -> updateMap, the   *)
(* reactive effect over the computed tile window, teardown, and the        *)
(* wheel-zoom handler.                                                     *)
(*                                                                         *)
(* Numbers.  zoomLevel and the containers' positions are JavaScript        *)
(* doubles.  They are modelled in binary fixed point with FracBits         *)
(* fractional bits: a value v stands for v / Scale, and every division or  *)
(* multiplication rounds to the nearest representable value.  As with      *)
(* doubles, 0.1 is not representable, so repeated steps of 0.1 leave the   *)
(* tenths grid and the clamp at minZoom / maxZoom does real work.          *)
(***************************************************************************)
EXTENDS Integers, Sequences, FiniteSets, TLC

\* ------------------------------------------------------------------ bounds

\* fractional bits of the fixed-point numbers
FracBits == 10
\* world.width and world.height range over 1..MaxWorld
MaxWorld == 2
\* windowWidthTiles() and windowHeightTiles() range over 0..MaxWindowTiles
MaxWindowTiles == 1
\* camera.x and camera.y range over 0..MaxCamera
MaxCamera == 1
\* number of changes of gamestate / window size a behaviour makes
MaxChanges == 2
\* number of wheel events a behaviour delivers
MaxWheel == 7
\* number of pointer drags a behaviour delivers
MaxDrags == 1

\* ------------------------------------------------------------- arithmetic

Scale == 2 ^ FracBits

Min(a, b) == IF a < b THEN a ELSE b
Max(a, b) == IF a > b THEN a ELSE b
Abs(a) == IF a < 0 THEN -a ELSE a

\* a / b rounded to the nearest integer (b > 0)
RoundDiv(a, b) == (a + (b \div 2)) \div b

\* fixed-point quotient and product
FDiv(a, b) == RoundDiv(a * Scale, b)
FMul(a, b) == RoundDiv(a * b, Scale)

\* a whole number of pixels as a fixed-point number
Px(n) == n * Scale

\* --------------------------------------------------------- zoom constants

\* private zoomLevel = 1.0 / readonly maxZoom = 1.0
maxZoom == Scale
\* readonly minZoom = 0.5
minZoom == Scale \div 2
\* the literal 0.1, rounded to the nearest representable value
ZoomStep == RoundDiv(Scale, 10)

\* the canvas's getBoundingClientRect()
rect == [left |-> 8, top |-> 8]

\* wheel events: deltaY and the client position of the cursor
WheelEvents ==
    { [deltaY |-> d, clientX |-> c[1], clientY |-> c[2]] :
        d \in {-100, 0, 100}, c \in {<<8, 8>>, <<56, 28>>} }

\* before the first wheel event
NoWheel == [event |-> [deltaY |-> 0, clientX |-> 0, clientY |-> 0], outcome |-> "none"]

\* pointer drags: the drag delta in pixels
DragDeltas == {<<-16, 8>>}

\* --------------------------------------------------------- external state

WorldSizes == { [width |-> w, height |-> h] : w \in 1..MaxWorld, h \in 1..MaxWorld }
Cameras == { [x |-> x, y |-> y] : x \in 0..MaxCamera, y \in 0..MaxCamera }
WindowTiles == 0..MaxWindowTiles

VARIABLES
    \* the component's fields
    app,                      \* "undefined" | "live" | "destroyed"
    mapContainer,             \* [defined, scale, x, y, children]
    playerIndicatorContainer, \* [defined, scale, x, y, children]
    terrainTextures,          \* "empty" ({}) | "loaded"
    objectTextures,           \* "empty" ({}) | "loaded"
    checkTexture,             \* "undefined" | "loaded"
    xTexture,                 \* "undefined" | "loaded"
    nodeSprites,              \* function: node key -> sprite data
    resizeObserver,           \* "undefined" | "connected" | "disconnected"
    zoomLevel,                \* fixed point
    \* signals the component reads
    gamestate,                \* [world |-> [width, height], camera |-> [x, y]]
    windowWidthTiles,
    windowHeightTiles,
    \* the computed `map`: its memoized value and whether a dependency changed
    mapValue,
    mapDirty,
    \* the constructor's effect: "initial" (created, its first run pending),
    \* "scheduled" (a dependency changed), "idle", or "destroyed"
    effectState,
    \* control
    pc,                       \* where ngOnInit is suspended
    destroyed,                \* ngOnDestroy has run
    dragOptions,              \* what setupMapDragging was given
    \* observations
    loggedErrors,             \* calls of loggerService.error
    loadCalls,                \* calls of loadGameMapTextures
    loadOutcome,              \* how loadTextures ended
    lastWheel,                \* the wheel event handled last and what onWheel did
    wheelCount,
    dragCount,
    changeCount

vars == <<app, mapContainer, playerIndicatorContainer, terrainTextures,
          objectTextures, checkTexture, xTexture, nodeSprites, resizeObserver,
          zoomLevel, gamestate, windowWidthTiles, windowHeightTiles, mapValue,
          mapDirty, effectState, pc, destroyed, dragOptions, loggedErrors,
          loadCalls, loadOutcome, lastWheel, wheelCount, dragCount, changeCount>>

pixiVars == <<app, mapContainer, playerIndicatorContainer, resizeObserver, dragOptions>>
textureVars == <<terrainTextures, objectTextures, checkTexture, xTexture,
                 loggedErrors, loadCalls, loadOutcome>>
signalVars == <<gamestate, windowWidthTiles, windowHeightTiles, changeCount>>
inputVars == <<zoomLevel, lastWheel, wheelCount, dragCount>>


\* ------------------------------------------------------- computed signals

\* the window width without the clamp to the world's width
nodeWidthUnclamped == windowWidthTiles + 1

\* nodeWidth = computed(() => Math.min(gamestate().world.width, windowWidthTiles() + 1))
nodeWidth == Min(gamestate.world.width, windowWidthTiles + 1)

\* nodeHeight = computed(() => Math.min(gamestate().world.height, windowHeightTiles() + 1))
nodeHeight == Min(gamestate.world.height, windowHeightTiles + 1)

\* camera = computed(() => gamestate().camera)
camera == gamestate.camera

\* generateMapGrid (helper): the rectangle of width x height tiles whose
\* first tile is the camera's, as rows of tiles; `request` keeps the
\* arguments of the call
generateMapGrid(cameraX, cameraY, width, height, worldWidth, worldHeight) ==
    [ request |-> [cameraX |-> cameraX, cameraY |-> cameraY,
                   width |-> width, height |-> height,
                   worldWidth |-> worldWidth, worldHeight |-> worldHeight],
      tiles |-> [r \in 1..height |->
                    [c \in 1..width |-> [x |-> cameraX + c - 1, y |-> cameraY + r - 1]]] ]

\* map = computed(() => generateMapGrid(camera.x, camera.y, width, height, world.width, world.height))
map ==
    generateMapGrid(camera.x, camera.y, nodeWidth, nodeHeight,
                    gamestate.world.width, gamestate.world.height)

\* the value `map` has before its first evaluation
NoMap == generateMapGrid(0, 0, 0, 0, 0, 0)

\* this.map(): the memoized value, recomputed when a dependency has changed
readMap ==
    /\ mapValue' = (IF mapDirty THEN map ELSE mapValue)
    /\ mapDirty' = FALSE

\* ------------------------------------------------------------- updateMap

\* const nodeKey = `${x}-${y}`
nodeKey(x, y) == ToString(x) \o "-" \o ToString(y)

\* world nodes for which the createNodeSprites helper returns no sprite data
EmptyNodes == {<<1, 0>>, <<2, 2>>}

\* createNodeSprites (helper): the sprite data of a tile, or nothing
helperCreateNodeSprites(x, y) ==
    IF <<x, y>> \in EmptyNodes THEN {} ELSE {[terrain |-> <<x, y>>]}

\* isAtNode (helper): the player stands on this node
isAtNode(x, y) == x = 0 /\ y = 0

\* the tiles of the rows, in forEach order
RECURSIVE Flatten(_)
Flatten(rows) ==
    IF rows = <<>> THEN <<>> ELSE Head(rows) \o Flatten(Tail(rows))

\* createNodeSprites(x, y, nodeData): if (spriteData) this.nodeSprites[nodeKey] = spriteData
createNodeSprites(registry, tile) ==
    LET spriteData == helperCreateNodeSprites(tile.x, tile.y)
    IN  IF spriteData = {} THEN registry
        ELSE (nodeKey(tile.x, tile.y) :> (CHOOSE d \in spriteData : TRUE)) @@ registry

\* mapData.forEach(row => row.forEach(tile => this.createNodeSprites(...)))
RECURSIVE ForEachTile(_, _)
ForEachTile(tiles, registry) ==
    IF tiles = <<>> THEN registry
    ELSE ForEachTile(Tail(tiles), createNodeSprites(registry, Head(tiles)))

\* updatePlayerIndicators(mapData): one indicator per tile the player is at
updatePlayerIndicators(mapData) ==
    IF ~playerIndicatorContainer.defined \/ app = "undefined" THEN {}
    ELSE { nodeKey(t.x, t.y) : t \in { u \in {Flatten(mapData)[i] : i \in 1..Len(Flatten(mapData))} : isAtNode(u.x, u.y) } }

\* the registry without the reset `this.nodeSprites = {}`
updateMapNoReset(mapData) ==
    IF ~mapContainer.defined \/ ~playerIndicatorContainer.defined
    THEN UNCHANGED <<mapContainer, playerIndicatorContainer, nodeSprites>>
    ELSE /\ nodeSprites' = ForEachTile(Flatten(mapData), nodeSprites)
         /\ mapContainer' = [mapContainer EXCEPT !.children = DOMAIN nodeSprites']
         /\ playerIndicatorContainer' =
               [playerIndicatorContainer EXCEPT !.children = updatePlayerIndicators(mapData)]

\* updateMap(mapData)
updateMap(mapData) ==
    IF ~mapContainer.defined \/ ~playerIndicatorContainer.defined
    THEN UNCHANGED <<mapContainer, playerIndicatorContainer, nodeSprites>>
    ELSE /\ nodeSprites' = ForEachTile(Flatten(mapData), <<>>)
         /\ mapContainer' = [mapContainer EXCEPT !.children = DOMAIN nodeSprites']
         /\ playerIndicatorContainer' =
               [playerIndicatorContainer EXCEPT !.children = updatePlayerIndicators(mapData)]

\* effect(() => { const mapData = this.map(); if (this.app && this.mapContainer) this.updateMap(mapData.tiles) })
effect ==
    /\ effectState \in {"initial", "scheduled"}
    /\ effectState' = "idle"
    /\ readMap
    /\ IF app # "undefined" /\ mapContainer.defined
       THEN updateMap(mapValue'.tiles)
       ELSE UNCHANGED <<mapContainer, playerIndicatorContainer, nodeSprites>>
    /\ UNCHANGED <<app, resizeObserver, dragOptions, pc, destroyed>>
    /\ UNCHANGED <<textureVars, signalVars, inputVars>>

\* ---------------------------------------------------------- mount sequence

NoContainer == [defined |-> FALSE, scale |-> Scale, x |-> 0, y |-> 0, children |-> {}]
NewContainer == [defined |-> TRUE, scale |-> Scale, x |-> 0, y |-> 0, children |-> {}]

\* ngOnInit, up to the first suspension: initPixi awaits initializePixiApp
ngOnInit ==
    /\ pc = "constructed"
    /\ ~destroyed
    /\ pc' = "awaitInitializePixiApp"
    /\ UNCHANGED <<pixiVars, nodeSprites, mapValue, mapDirty, effectState, destroyed>>
    /\ UNCHANGED <<textureVars, signalVars, inputVars>>

\* setupMouseDragging(): the options handed to setupMapDragging
setupMouseDragging(theApp, theMap, theIndicator) ==
    IF theApp = "undefined" \/ ~theMap.defined \/ ~theIndicator.defined
    THEN dragOptions
    ELSE [installed |-> TRUE, viewportWidth |-> nodeWidth, viewportHeight |-> nodeHeight]

\* initPixi, resumed when initializePixiApp resolves.  The effect's first
\* run was queued by the constructor, ahead of the rendering surface's
\* asynchronous initialization, so it has run (or was destroyed) by now.
initPixi ==
    /\ pc = "awaitInitializePixiApp"
    /\ effectState # "initial"
    /\ app' = "live"
    /\ mapContainer' = NewContainer
    /\ playerIndicatorContainer' = NewContainer
    /\ resizeObserver' = "connected"
    /\ dragOptions' = setupMouseDragging(app', mapContainer', playerIndicatorContainer')
    /\ pc' = "awaitInitPixi"
    /\ UNCHANGED <<nodeSprites, mapValue, mapDirty, effectState, destroyed>>
    /\ UNCHANGED <<textureVars, signalVars, inputVars>>

\* ngOnInit resumed after initPixi: loadTextures runs up to `await loadGameMapTextures(...)`
loadTexturesCall ==
    /\ pc = "awaitInitPixi"
    /\ loadCalls' = loadCalls + 1
    /\ pc' = "awaitLoadGameMapTextures"
    /\ UNCHANGED <<pixiVars, nodeSprites, mapValue, mapDirty, effectState, destroyed>>
    /\ UNCHANGED <<terrainTextures, objectTextures, checkTexture, xTexture,
                   loggedErrors, loadOutcome>>
    /\ UNCHANGED <<signalVars, inputVars>>

LoadOutcomes == {"loaded", "loadRejects", "claimThrows"}

\* loadTextures with the catch block missing: the error leaves ngOnInit
loadTexturesUncaught(outcome) ==
    /\ pc = "awaitLoadGameMapTextures"
    /\ loadOutcome' = outcome
    /\ terrainTextures' = (IF outcome = "loadRejects" THEN terrainTextures ELSE "loaded")
    /\ objectTextures' = (IF outcome = "loadRejects" THEN objectTextures ELSE "loaded")
    /\ checkTexture' = (IF outcome = "loaded" THEN "loaded" ELSE checkTexture)
    /\ xTexture' = (IF outcome = "loaded" THEN "loaded" ELSE xTexture)
    /\ loggedErrors' = loggedErrors
    /\ pc' = (IF outcome = "loaded" THEN "awaitLoadTextures" ELSE "rejected")
    /\ UNCHANGED <<pixiVars, nodeSprites, mapValue, mapDirty, effectState, destroyed, loadCalls>>
    /\ UNCHANGED <<signalVars, inputVars>>

\* loadTextures resumed: loadGameMapTextures resolves or rejects, then
\* createClaimIndicatorTextures returns or throws; catch logs the error
loadTextures(outcome) ==
    /\ pc = "awaitLoadGameMapTextures"
    /\ loadOutcome' = outcome
    /\ terrainTextures' = (IF outcome = "loadRejects" THEN terrainTextures ELSE "loaded")
    /\ objectTextures' = (IF outcome = "loadRejects" THEN objectTextures ELSE "loaded")
    /\ checkTexture' = (IF outcome = "loaded" THEN "loaded" ELSE checkTexture)
    /\ xTexture' = (IF outcome = "loaded" THEN "loaded" ELSE xTexture)
    /\ loggedErrors' = (IF outcome = "loaded" THEN loggedErrors ELSE loggedErrors + 1)
    /\ pc' = "awaitLoadTextures"
    /\ UNCHANGED <<pixiVars, nodeSprites, mapValue, mapDirty, effectState, destroyed, loadCalls>>
    /\ UNCHANGED <<signalVars, inputVars>>

\* ngOnInit resumed after loadTextures: this.updateMap(this.map().tiles)
ngOnInitUpdateMap ==
    /\ pc = "awaitLoadTextures"
    /\ readMap
    /\ updateMap(mapValue'.tiles)
    /\ pc' = "done"
    /\ UNCHANGED <<app, resizeObserver, dragOptions, effectState, destroyed>>
    /\ UNCHANGED <<textureVars, signalVars, inputVars>>

\* ngOnDestroy: this.resizeObserver?.disconnect(); this.app?.destroy(true).
\* The component's effect is destroyed with it.
ngOnDestroy ==
    /\ ~destroyed
    /\ destroyed' = TRUE
    /\ resizeObserver' = (IF resizeObserver = "undefined" THEN "undefined" ELSE "disconnected")
    /\ app' = (IF app = "undefined" THEN "undefined" ELSE "destroyed")
    /\ effectState' = "destroyed"
    /\ UNCHANGED <<mapContainer, playerIndicatorContainer, dragOptions, nodeSprites,
                   mapValue, mapDirty, pc>>
    /\ UNCHANGED <<textureVars, signalVars, inputVars>>

\* ------------------------------------------------------- signal changes

\* a change of a signal `map` depends on: `map` is stale and the effect,
\* unless destroyed, is scheduled
notify ==
    /\ mapDirty' = TRUE
    /\ effectState' = (IF effectState = "idle" THEN "scheduled" ELSE effectState)
    /\ changeCount' = changeCount + 1

\* gamestate's camera is set (by the owner of the game state)
setCamera(c) ==
    /\ changeCount < MaxChanges
    /\ c # gamestate.camera
    /\ gamestate' = [gamestate EXCEPT !.camera = c]
    /\ notify
    /\ UNCHANGED <<windowWidthTiles, windowHeightTiles>>
    /\ UNCHANGED <<pixiVars, nodeSprites, mapValue, pc, destroyed>>
    /\ UNCHANGED <<textureVars, inputVars>>

\* gamestate's world is replaced by one of another size
setWorld(w) ==
    /\ changeCount < MaxChanges
    /\ w # gamestate.world
    /\ gamestate' = [gamestate EXCEPT !.world = w]
    /\ notify
    /\ UNCHANGED <<windowWidthTiles, windowHeightTiles>>
    /\ UNCHANGED <<pixiVars, nodeSprites, mapValue, pc, destroyed>>
    /\ UNCHANGED <<textureVars, inputVars>>

\* the host element is resized: the window size in tiles changes
resize(w, h) ==
    /\ changeCount < MaxChanges
    /\ <<w, h>> # <<windowWidthTiles, windowHeightTiles>>
    /\ windowWidthTiles' = w
    /\ windowHeightTiles' = h
    /\ notify
    /\ UNCHANGED gamestate
    /\ UNCHANGED <<pixiVars, nodeSprites, mapValue, pc, destroyed>>
    /\ UNCHANGED <<textureVars, inputVars>>

\* ------------------------------------------------------------- onWheel

\* a zoom delta that also zooms in on deltaY = 0
zoomDeltaInclusive(deltaY) == IF deltaY <= 0 THEN ZoomStep ELSE -ZoomStep

\* const zoomDelta = event.deltaY < 0 ? 0.1 : -0.1
zoomDelta(deltaY) == IF deltaY < 0 THEN ZoomStep ELSE -ZoomStep

\* a clamp that forgets the lower bound
clampZoomUpperOnly(z) == Min(maxZoom, z)

\* Math.max(this.minZoom, Math.min(this.maxZoom, newZoom))
clampZoom(z) == Max(minZoom, Min(maxZoom, z))

\* the anchor computed with the zoom levels exchanged
anchoredOffsetSwapped(mouse, pos, oldZoom, newZoom) ==
    mouse - FMul(FDiv(mouse - pos, newZoom), oldZoom)

\* world = (mouse - mapPos) / oldZoom; position = mouse - world * this.zoomLevel
anchoredOffset(mouse, pos, oldZoom, newZoom) ==
    mouse - FMul(FDiv(mouse - pos, oldZoom), newZoom)

\* the player-indicator layer left where it was
followMapContainerScaleOnly(indicator, theMap) ==
    IF indicator.defined
    THEN [indicator EXCEPT !.scale = theMap.scale]
    ELSE indicator

\* this.playerIndicatorContainer?.scale.set(zoomLevel); ?.position.set(mapContainer.position)
followMapContainer(indicator, theMap) ==
    IF indicator.defined
    THEN [indicator EXCEPT !.scale = theMap.scale, !.x = theMap.x, !.y = theMap.y]
    ELSE indicator

\* the cursor relative to the canvas: event.clientX - rect.left, event.clientY - rect.top
mouseX(event) == Px(event.clientX - rect.left)
mouseY(event) == Px(event.clientY - rect.top)

\* onWheel(event)
onWheel(event) ==
    /\ wheelCount' = wheelCount + 1
    /\ IF ~mapContainer.defined \/ app = "undefined"
       THEN /\ lastWheel' = [event |-> event, outcome |-> "notReady"]
            /\ UNCHANGED <<zoomLevel, mapContainer, playerIndicatorContainer>>
       ELSE LET oldZoom == zoomLevel
                newZoom == clampZoom(zoomLevel + zoomDelta(event.deltaY))
            IN  IF newZoom = oldZoom
                THEN /\ lastWheel' = [event |-> event, outcome |-> "unchanged"]
                     /\ UNCHANGED <<zoomLevel, mapContainer, playerIndicatorContainer>>
                ELSE /\ lastWheel' = [event |-> event, outcome |-> "zoomed"]
                     /\ zoomLevel' = newZoom
                     /\ mapContainer' =
                           [mapContainer EXCEPT
                              !.scale = newZoom,
                              !.x = anchoredOffset(mouseX(event), mapContainer.x, oldZoom, newZoom),
                              !.y = anchoredOffset(mouseY(event), mapContainer.y, oldZoom, newZoom)]
                     /\ playerIndicatorContainer' =
                           followMapContainer(playerIndicatorContainer, mapContainer')
    /\ UNCHANGED <<app, resizeObserver, dragOptions, nodeSprites, mapValue, mapDirty,
                   effectState, pc, destroyed, dragCount>>
    /\ UNCHANGED <<textureVars, signalVars>>

\* -------------------------------------------------------------- dragging

\* side of a tile in pixels at zoom 1.0
TileSize == 64

\* setupMapDragging (helper): a coordinate moved by the drag delta and kept
\* within the map bounds the helper was set up with
clampToMapBounds(pos, viewportTiles) ==
    Max(-Px(viewportTiles * TileSize), Min(Px(viewportTiles * TileSize), pos))

dragged(container, delta) ==
    [container EXCEPT
       !.x = clampToMapBounds(container.x + Px(delta[1]), dragOptions.viewportWidth),
       !.y = clampToMapBounds(container.y + Px(delta[2]), dragOptions.viewportHeight)]

\* a pointer drag over the canvas, handled by the helper's listeners
drag(delta) ==
    /\ dragOptions.installed
    /\ app = "live"
    /\ dragCount' = dragCount + 1
    /\ mapContainer' = dragged(mapContainer, delta)
    /\ playerIndicatorContainer' = dragged(playerIndicatorContainer, delta)
    /\ UNCHANGED <<app, resizeObserver, dragOptions, nodeSprites, mapValue, mapDirty,
                   effectState, pc, destroyed, zoomLevel, lastWheel, wheelCount>>
    /\ UNCHANGED <<textureVars, signalVars>>

\* ------------------------------------------------------------------ Init

Init ==
    /\ app = "undefined"
    /\ mapContainer = NoContainer
    /\ playerIndicatorContainer = NoContainer
    /\ terrainTextures = "empty"
    /\ objectTextures = "empty"
    /\ checkTexture = "undefined"
    /\ xTexture = "undefined"
    /\ nodeSprites = <<>>
    /\ resizeObserver = "undefined"
    /\ zoomLevel = maxZoom
    /\ gamestate = [world |-> [width |-> 2, height |-> 1], camera |-> [x |-> 0, y |-> 0]]
    /\ windowWidthTiles = 0
    /\ windowHeightTiles = 1
    /\ mapValue = NoMap
    /\ mapDirty = TRUE
    /\ effectState = "initial"
    /\ pc = "constructed"
    /\ destroyed = FALSE
    /\ dragOptions = [installed |-> FALSE, viewportWidth |-> 0, viewportHeight |-> 0]
    /\ loggedErrors = 0
    /\ loadCalls = 0
    /\ loadOutcome = "none"
    /\ lastWheel = NoWheel
    /\ wheelCount = 0
    /\ dragCount = 0
    /\ changeCount = 0

Next ==
    \/ ngOnInit
    \/ initPixi
    \/ loadTexturesCall
    \/ \E outcome \in LoadOutcomes : loadTextures(outcome)
    \/ ngOnInitUpdateMap
    \/ ngOnDestroy
    \/ effect
    \/ \E c \in Cameras : setCamera(c)
    \/ \E w \in WorldSizes : setWorld(w)
    \/ \E w \in WindowTiles, h \in WindowTiles : resize(w, h)

Spec == Init /\ [][Next]_vars

\* the mount sequence with its input events: wheel and drag
NextZoom ==
    \/ ngOnInit
    \/ initPixi
    \/ loadTexturesCall
    \/ loadTextures("loaded")
    \/ ngOnInitUpdateMap
    \/ effect
    \/ \E event \in WheelEvents : wheelCount < MaxWheel /\ onWheel(event)
    \/ \E delta \in DragDeltas : dragCount < MaxDrags /\ drag(delta)

ZoomSpec == Init /\ [][NextZoom]_vars

\* ------------------------------------------------------------ properties

\* the zoom levels 0.5 and 1.0, and the step 0.1, as the specification states them
ZoomHalf == Scale \div 2
ZoomOne == Scale
ZoomTenth == RoundDiv(Scale, 10)

\* the cursor of the wheel event handled last, relative to the canvas
CursorX == Px(lastWheel.event.clientX - rect.left)
CursorY == Px(lastWheel.event.clientY - rect.top)

\* the world point under canvas position c, for a layer at offset p with zoom z
WorldPoint(c, p, z) == FDiv(c - p, z)

\* C1: the zoom level starts at 1.0, is within [0.5, 1.0] in every reachable
\* state, and is changed only by a step in which onWheel handles an event.
C1_ZoomWithinRange ==
    /\ zoomLevel = ZoomOne
    /\ [](ZoomHalf <= zoomLevel /\ zoomLevel <= ZoomOne)
    /\ [][zoomLevel' # zoomLevel =>
            wheelCount' = wheelCount + 1 /\ lastWheel'.outcome = "zoomed"]_vars

\* C1 witness: wheel events have driven the zoom down to the lower bound,
\* through a value off the tenths grid
C1_Witness ==
    /\ zoomLevel = ZoomHalf
    /\ lastWheel.outcome = "zoomed"
    /\ lastWheel.event.deltaY > 0
    /\ wheelCount >= 5

\* C2: a wheel event that changes the zoom from oldZoom to newZoom with the
\* cursor at c and the map layer at p sets the offset to
\* c - ((c - p) / oldZoom) * newZoom on both axes, and the world point under
\* the cursor after the step is within less than one pixel of the one before.
C2_CursorAnchored ==
    [][zoomLevel' # zoomLevel =>
         /\ mapContainer'.x =
               CursorX' - FMul(WorldPoint(CursorX', mapContainer.x, zoomLevel), zoomLevel')
         /\ mapContainer'.y =
               CursorY' - FMul(WorldPoint(CursorY', mapContainer.y, zoomLevel), zoomLevel')
         /\ Abs(WorldPoint(CursorX', mapContainer'.x, zoomLevel')
                  - WorldPoint(CursorX', mapContainer.x, zoomLevel)) < Px(1)
         /\ Abs(WorldPoint(CursorY', mapContainer'.y, zoomLevel')
                  - WorldPoint(CursorY', mapContainer.y, zoomLevel)) < Px(1)]_vars

\* C2 witness: a zoom step about a cursor away from the layer's origin, after
\* a drag, that left the layer at a fractional offset
C2_Witness ==
    /\ lastWheel.outcome = "zoomed"
    /\ dragCount > 0
    /\ CursorX # 0
    /\ CursorX # mapContainer.x
    /\ mapContainer.x % Scale # 0
    /\ mapContainer.y % Scale # 0

\* C3: once ngOnDestroy has run, the resize observer is not connected and the
\* rendering surface is not live, wherever the mount sequence is suspended.
C3_TeardownReleases ==
    destroyed => resizeObserver # "connected" /\ app # "live"

\* C4: no sprite is built before loadTextures has finished.
C4_NoSpritesBeforeTextures ==
    pc \in {"constructed", "awaitInitializePixiApp", "awaitInitPixi",
            "awaitLoadGameMapTextures"}
       => nodeSprites = <<>> /\ mapContainer.children = {}

\* C5 as stated: after a failed texture load the error is logged exactly once,
\* loading is not retried, ngOnInit does not reject, and none of the four
\* textures is assigned.
C5_FailureLeavesAllUnassigned ==
    loadOutcome \in {"loadRejects", "claimThrows"} =>
        /\ loggedErrors = 1
        /\ loadCalls = 1
        /\ pc \in {"awaitLoadTextures", "done"}
        /\ terrainTextures = "empty"
        /\ objectTextures = "empty"
        /\ checkTexture = "undefined"
        /\ xTexture = "undefined"

\* C5 amended: after a failed texture load the error is logged exactly once,
\* loading is not retried, ngOnInit does not reject and goes on to the
\* updateMap call; the two indicator textures are left undefined; the terrain
\* and object textures are left unassigned when loadGameMapTextures rejects,
\* and are assigned when only createClaimIndicatorTextures throws.
C5_FailureCaughtOnce ==
    loadOutcome \in {"loadRejects", "claimThrows"} =>
        /\ loggedErrors = 1
        /\ loadCalls = 1
        /\ pc \in {"awaitLoadTextures", "done"}
        /\ pc = "awaitLoadTextures" => ENABLED ngOnInitUpdateMap
        /\ checkTexture = "undefined"
        /\ xTexture = "undefined"
        /\ terrainTextures = (IF loadOutcome = "claimThrows" THEN "loaded" ELSE "empty")
        /\ objectTextures = (IF loadOutcome = "claimThrows" THEN "loaded" ELSE "empty")

\* C5 witness: createClaimIndicatorTextures threw, and the mount sequence
\* went on through updateMap
C5_Witness ==
    /\ loadOutcome = "claimThrows"
    /\ pc = "done"
    /\ loggedErrors = 1
    /\ terrainTextures = "loaded"
    /\ checkTexture = "undefined"

\* the tiles of the current tile window
WindowTileSet == { Flatten(map.tiles)[i] : i \in 1..Len(Flatten(map.tiles)) }

\* C6: once the mount sequence has completed and the effect has run, the
\* registry's keys are exactly the keys of the tiles of the current window for
\* which sprite creation returned data, each entry holding that tile's sprites.
C6_RegistryIsCurrentWindow ==
    pc = "done" /\ ~destroyed /\ effectState = "idle" =>
        /\ DOMAIN nodeSprites =
              { nodeKey(t.x, t.y) :
                  t \in { u \in WindowTileSet : helperCreateNodeSprites(u.x, u.y) # {} } }
        /\ \A t \in WindowTileSet :
              helperCreateNodeSprites(t.x, t.y) # {} =>
                  nodeSprites[nodeKey(t.x, t.y)] \in helperCreateNodeSprites(t.x, t.y)

\* C6 witness: after the mount, the camera moved and the world or window
\* changed, the effect has rebuilt the registry for a window that starts at
\* another tile and holds a tile without sprite data
C6_Witness ==
    /\ pc = "done"
    /\ ~destroyed
    /\ effectState = "idle"
    /\ changeCount >= 2
    /\ camera.x = 1
    /\ nodeSprites # <<>>
    /\ Cardinality(DOMAIN nodeSprites) < Cardinality(WindowTileSet)

\* C7: whenever the memoized tile window is up to date, the width and height
\* requested from generateMapGrid are min(world.width, windowWidthTiles + 1)
\* and min(world.height, windowHeightTiles + 1); and every request is no wider
\* and no taller than the world passed with it.
C7_WindowWithinWorld ==
    /\ mapValue.request.width <= mapValue.request.worldWidth
    /\ mapValue.request.height <= mapValue.request.worldHeight
    /\ ~mapDirty =>
          /\ mapValue.request.width =
                (IF gamestate.world.width < windowWidthTiles + 1
                 THEN gamestate.world.width ELSE windowWidthTiles + 1)
          /\ mapValue.request.height =
                (IF gamestate.world.height < windowHeightTiles + 1
                 THEN gamestate.world.height ELSE windowHeightTiles + 1)
          /\ mapValue.request.width <= gamestate.world.width
          /\ mapValue.request.height <= gamestate.world.height

\* C7 witness: after a resize, the window is wider than the world allows, and
\* the requested width is the world's
C7_Witness ==
    /\ ~mapDirty
    /\ changeCount >= 1
    /\ windowWidthTiles + 1 > gamestate.world.width
    /\ windowHeightTiles + 1 < gamestate.world.height
    /\ mapValue.request.width = gamestate.world.width
    /\ mapValue.request.height = windowHeightTiles + 1

\* C8: both layers' scales equal the zoom level in every reachable state, and
\* after every wheel event that changes the zoom the player-indicator layer is
\* at the map layer's position.
C8_ZoomUniform ==
    /\ [](mapContainer.defined =>
             /\ playerIndicatorContainer.defined
             /\ mapContainer.scale = zoomLevel
             /\ playerIndicatorContainer.scale = zoomLevel)
    /\ [][zoomLevel' # zoomLevel =>
             /\ playerIndicatorContainer'.x = mapContainer'.x
             /\ playerIndicatorContainer'.y = mapContainer'.y]_vars

\* C8 witness: a zoom step about a cursor away from the origin has moved and
\* scaled both layers
C8_Witness ==
    /\ lastWheel.outcome = "zoomed"
    /\ zoomLevel < ZoomOne
    /\ mapContainer.x # 0
    /\ mapContainer.y # 0
    /\ playerIndicatorContainer.scale = zoomLevel
    /\ playerIndicatorContainer.x = mapContainer.x

\* C9: the viewport the drag helper was given is the current tile window.
C9_DragUsesCurrentWindow ==
    dragOptions.installed =>
        /\ dragOptions.viewportWidth = nodeWidth
        /\ dragOptions.viewportHeight = nodeHeight

\* the zoom a wheel event asks for: deltaY < 0 zooms in by 0.1, any other
\* deltaY zooms out by 0.1, clamped to [0.5, 1.0]
ClampedNewZoom(z, deltaY) ==
    Max(ZoomHalf, Min(ZoomOne, z + (IF deltaY < 0 THEN ZoomTenth ELSE -ZoomTenth)))

\* C10: a wheel event whose clamped new zoom equals the current zoom, or that
\* is handled while the map layer or the application is not set, leaves the
\* zoom level and both layers' scale and position unchanged.
C10_NoOpWheel ==
    [][(/\ wheelCount' # wheelCount
        /\ \/ ~mapContainer.defined
           \/ app = "undefined"
           \/ ClampedNewZoom(zoomLevel, lastWheel'.event.deltaY) = zoomLevel)
        => UNCHANGED <<zoomLevel, mapContainer, playerIndicatorContainer>>]_vars

\* C10 witness: at zoom 0.5, away from the initial offset, a wheel event with
\* deltaY = 0 was handled and changed nothing
C10_Witness ==
    /\ zoomLevel = ZoomHalf
    /\ lastWheel.outcome = "unchanged"
    /\ lastWheel.event.deltaY = 0
    /\ mapContainer.x # 0

=============================================================================
